---- MODULE Spec2Model ----
(***************************************************************************)
(* ScopeGreen LCA MCP server (src/server.py): two tools,                   *)
(* search_lca_metrics and get_available_metrics, each of which reads the   *)
(* API key from the environment, opens an httpx.AsyncClient, issues one    *)
(* GET and maps the outcome to a dictionary.  src/project/server.py is the *)
(* earlier variant of the same two tools: it builds the query and maps the *)
(* outcome with the same statements, and reads the key once at import.     *)
(*                                                                         *)
(* Python values are modelled as records so that values of different      *)
(* Python types can be compared: None is [none |-> TRUE], a str s is       *)
(* [str |-> s], an int n is [int |-> n], a bool b is [bool |-> b], a list   *)
(* is [list |-> <<...>>] and a dict is the function from its keys to its   *)
(* values.                                                                 *)
(***************************************************************************)
EXTENDS Integers, Sequences, FiniteSets, TLC

VARIABLES environ, stdout, inv, clients

vars == <<environ, stdout, inv, clients>>

(* Number of invocations a behaviour may start (they may overlap). *)
MaxInv == 2

Invs == 1..MaxInv

-----------------------------------------------------------------------------
(* Python values *)

PyNone == [none |-> TRUE]
PyStr(s) == [str |-> s]
PyInt(n) == [int |-> n]
PyBool(b) == [bool |-> b]
PyList(q) == [list |-> q]

(* Python truthiness of the values the tools test with `not`. *)
Truthy(v) == v # PyNone /\ v # PyStr("") /\ v # PyBool(FALSE) /\ v # PyInt(0)

-----------------------------------------------------------------------------
(* The process environment: a function from variable names to strings. *)

KEY_VAR == "SCOPEGREEN_API_KEY"

Environments ==
    { <<>>, [v \in {KEY_VAR} |-> ""], [v \in {KEY_VAR} |-> "sk-live-1"] }

(* os.getenv(name): the value, or None when the variable is unset. *)
Getenv(env, name) == IF name \in DOMAIN env THEN PyStr(env[name]) ELSE PyNone

-----------------------------------------------------------------------------
(* print: the tools write diagnostic lines to sys.stdout.  print raises    *)
(* UnicodeEncodeError when the encoding of stdout cannot encode a          *)
(* character of the text; the error handler of stdout is "strict" or       *)
(* "surrogateescape" (the interpreter's choice under the C/POSIX locale),  *)
(* which writes a lone surrogate U+DC80..U+DCFF as the byte it stands for. *)

Encodings == { "utf-8", "cp1252" }
ErrorHandlers == { "strict", "surrogateescape" }
Stdouts == [ encoding : Encodings, errors : ErrorHandlers ]

(* Texts with characters outside ASCII, written with their code points:    *)
(* two CJK characters; a lone surrogate (what a str can hold and no        *)
(* encoding accepts); the replacement character that decoding with         *)
(* errors="replace" puts for an invalid byte; the C1 control character     *)
(* U+0080; a JSON body with CJK characters and the same bytes read as      *)
(* ISO-8859-1.                                                             *)
T_CJK == "<U+92FC><U+6881>"
T_SURROGATE == "<U+DC80>"
T_REPLACED == "<U+FFFD>abc"
T_C1 == "<U+0080>abc"
B_CJK == "{\"reason\":\"<U+672A><U+691C><U+51FA>\"}"
T_MOJIBAKE ==
    "{\"reason\":\"<U+00E6><U+009C><U+00AA><U+00E6><U+00A4><U+009C><U+00E5><U+0087><U+00BA>\"}"

(* Texts with a lone surrogate. *)
SurrogateTexts == { T_SURROGATE }
(* Texts with a character that cp1252 cannot encode. *)
NonLatinTexts == { T_CJK, T_REPLACED, B_CJK, T_C1, T_MOJIBAKE }
(* Those of them in which such a character is printable, so that repr      *)
(* keeps it (repr escapes surrogates and control characters).              *)
PrintableNonLatinTexts == { T_CJK, T_REPLACED, B_CJK }

(* print(f"{s}") succeeds on the stdout out: every character of s can be   *)
(* encoded.                                                                *)
StrEncodable(s, out) ==
    /\ s \in SurrogateTexts => out.errors = "surrogateescape"
    /\ s \in NonLatinTexts => out.encoding = "utf-8"

(* print(f"{d}") of a dict with the str s as a value succeeds: repr(s)     *)
(* escapes a surrogate and keeps the printable characters.                 *)
ReprEncodable(s, out) ==
    s \in PrintableNonLatinTexts => out.encoding = "utf-8"

(* line 56: the print of item_name and the effective domain succeeds. *)
PrintSearchOk(args, out) == StrEncodable(args.item_name.str, out)

(* line 75: the print of filtered_params succeeds. *)
PrintParamsOk(query, out) ==
    \A k \in DOMAIN query :
        "str" \in DOMAIN query[k] => ReprEncodable(query[k].str, out)

-----------------------------------------------------------------------------
(* search_lca_metrics: building the outbound query (lines 54-71). *)

DEFAULT_DOMAIN == "Materials & Products"

(* An argument list the tool framework can pass: every parameter is a      *)
(* Python value, None when the caller leaves an Optional one absent.       *)
ItemNames == { PyStr("steel beam"), PyStr(""), PyStr(T_CJK), PyStr(T_SURROGATE) }
Metrics == { PyStr("Carbon footprint"), PyNone }
Years == { PyNone, PyStr("2022") }
Geographies == { PyNone, PyStr("DE"), PyStr(T_CJK) }
NumMatches == { PyInt(1), PyNone }
Units == { PyNone, PyStr("kg") }
Modes == { PyStr("lite"), PyNone }
Domains == { PyNone, PyStr("Materials & Products"), PyStr("Processing"),
             PyStr("Transport"), PyStr("Energy"), PyStr("Direct emissions") }
NotEnglish == { PyBool(FALSE), PyBool(TRUE), PyNone }

SearchArgs ==
    [ item_name : ItemNames, metric : Metrics, year : Years,
      geography : Geographies, num_matches : NumMatches, unit : Units,
      mode : Modes, domain : Domains, not_english : NotEnglish ]

(* The call search_lca_metrics(item_name) with every default of the        *)
(* signature (lines 13-21).                                                *)
DefaultArgs(item) ==
    [ item_name |-> item, metric |-> PyStr("Carbon footprint"), year |-> PyNone,
      geography |-> PyNone, num_matches |-> PyInt(1), unit |-> PyNone,
      mode |-> PyStr("lite"), domain |-> PyNone, not_english |-> PyBool(FALSE) ]

(* get_available_metrics takes no argument. *)
NoArgs == <<>>

EffectiveDomainPassThrough(domain) == domain

(* line 55 *)
EffectiveDomain(domain) ==
    IF domain # PyNone THEN domain ELSE PyStr(DEFAULT_DOMAIN)

KeepTruthy(v) == Truthy(v)

(* line 71: the filter `if v is not None` *)
Keep(v) == v # PyNone

(* lines 59-69 *)
Params(args) ==
    [ item_name |-> args.item_name, metric |-> args.metric, year |-> args.year,
      geography |-> args.geography, num_matches |-> args.num_matches,
      unit |-> args.unit, mode |-> args.mode,
      domain |-> EffectiveDomain(args.domain),
      not_english |-> args.not_english ]

(* line 71 *)
FilteredParams(args) ==
    LET params == Params(args)
        kept == { k \in DOMAIN params : Keep(params[k]) }
    IN  [ k \in kept |-> params[k] ]

(* line 58 / line 104 *)
Headers(api_key) == [ Authorization |-> PyStr("Bearer " \o api_key.str) ]

SEARCH == "search_lca_metrics"
AVAILABLE == "get_available_metrics"
Ops == { SEARCH, AVAILABLE }

(* line 76 / line 107 *)
Path(op) ==
    IF op = SEARCH THEN "/api/metrics/search" ELSE "/api/metrics/available"

(* The query handed to client.get: filtered_params for the search (line   *)
(* 76), none for the availability call (line 107).                         *)
Query(op, args) == IF op = SEARCH THEN FilteredParams(args) ELSE <<>>

(* line 76: client.get encodes the query into the URL as UTF-8 before it   *)
(* sends anything; a lone surrogate in a value makes that raise            *)
(* UnicodeEncodeError.                                                     *)
UrlEncodable(query) ==
    \A k \in DOMAIN query :
        "str" \in DOMAIN query[k] => query[k].str \notin SurrogateTexts

-----------------------------------------------------------------------------
(* The remote side: what client.get can produce. *)

B_NOTFOUND == "{\"reason\":\"not found\"}"
B_METRICS == "{\"metrics\": [\"Carbon footprint\",\"Land Use\"]}"
B_TEXT == "internal error"
(* The four bytes 80 61 62 63: not valid UTF-8. *)
B_BADUTF8 == "<80>abc"

Bodies == { B_NOTFOUND, B_METRICS, B_TEXT, B_CJK, B_BADUTF8 }
Statuses == { 200, 302, 404, 500 }

(* The charset the remote declares in Content-Type; httpx takes utf-8     *)
(* when it declares none.                                                  *)
Charsets == { "utf-8", "iso-8859-1" }

(* response.text: the body decoded with the declared charset and           *)
(* errors="replace".                                                       *)
ResponseText(body, charset) ==
    CASE charset = "utf-8" /\ body = B_BADUTF8 -> T_REPLACED
      [] charset = "iso-8859-1" /\ body = B_BADUTF8 -> T_C1
      [] charset = "iso-8859-1" /\ body = B_CJK -> T_MOJIBAKE
      [] OTHER -> body

(* response.json(): json.loads of the body's bytes, whatever the declared  *)
(* charset; the decoded value, or the exception json.loads raises          *)
(* (UnicodeDecodeError is a ValueError but no JSONDecodeError).            *)
ResponseJson(body) ==
    CASE body = B_NOTFOUND ->
           [ ok |-> TRUE, value |-> [ reason |-> PyStr("not found") ] ]
      [] body = B_METRICS ->
           [ ok |-> TRUE,
             value |-> [ metrics |->
                           PyList(<< PyStr("Carbon footprint"), PyStr("Land Use") >>) ] ]
      [] body = B_CJK ->
           [ ok |-> TRUE,
             value |-> [ reason |-> PyStr("<U+672A><U+691C><U+51FA>") ] ]
      [] body = B_BADUTF8 -> [ ok |-> FALSE, exc |-> "UnicodeDecodeError" ]
      [] OTHER -> [ ok |-> FALSE, exc |-> "JSONDecodeError" ]

Response(status, body, charset) ==
    [ kind |-> "response", status |-> status, body |-> body, charset |-> charset ]

(* A message of ASCII characters: stands for the text of every exception   *)
(* message that any stdout can encode.                                     *)
M_ASCII == "ascii"

(* An exception of class exc whose str() is msg. *)
RaisedWith(exc, msg) == [ kind |-> "raise", exc |-> exc, msg |-> msg ]
Raised(exc) == RaisedWith(exc, M_ASCII)
Returned(value) == [ kind |-> "return", value |-> value ]
Nothing == [ kind |-> "none" ]

(* Every outcome of `await client.get(...)` once the request has gone out: *)
(* a response, a transport-level httpx.RequestError, another Exception     *)
(* (each with a message in ASCII or in CJK characters), or a BaseException *)
(* that is no Exception (asyncio.CancelledError when the host cancels the  *)
(* call).                                                                  *)
GetOutcomes ==
    { Response(s, b, c) : s \in Statuses, b \in Bodies, c \in Charsets }
        \cup { RaisedWith(e, m) : e \in { "RequestError", "RuntimeError" },
                                  m \in { M_ASCII, T_CJK } }
        \cup { Raised("CancelledError") }

(* isinstance(exc, Exception) *)
IsException(exc) == exc # "CancelledError"

(* response.raise_for_status() (line 77) raises HTTPStatusError unless the *)
(* status is 2xx.                                                          *)
IsSuccess(status) == 200 <= status /\ status <= 299

-----------------------------------------------------------------------------
(* The results the tools build. *)

(* line 49 / line 99 *)
MissingKeyError ==
    [ error |-> PyStr("SCOPEGREEN_API_KEY not found in environment variables") ]

(* line 86 / line 113 *)
StatusError(status, details) ==
    [ error |-> PyStr("API request failed with status " \o ToString(status)),
      details |-> details ]

(* line 89 / line 116 *)
ConnectError == [ error |-> PyStr("Failed to connect to the ScopeGreen API.") ]

(* line 92 / line 119 *)
UnexpectedError ==
    [ error |-> PyStr("An unexpected error occurred during the API call.") ]

MissingCredentialIsNone(api_key) == api_key = PyNone

(* line 48 / line 98: `if not api_key` *)
MissingCredential(api_key) == ~Truthy(api_key)

TryBodyRawText(got) ==
    IF got.kind = "raise" THEN got
    ELSE IF ~IsSuccess(got.status) THEN Raised("HTTPStatusError")
    ELSE Returned(PyStr(ResponseText(got.body, got.charset)))

(* The body of the try statement (lines 76-79 / 107-110): the value it     *)
(* returns or the exception it raises, given the outcome of client.get.    *)
TryBody(got) ==
    IF got.kind = "raise" THEN got
    ELSE IF ~IsSuccess(got.status) THEN Raised("HTTPStatusError")
    ELSE LET j == ResponseJson(got.body)
         IN  IF j.ok THEN Returned(j.value) ELSE Raised(j.exc)

(* search_lca_metrics, lines 80-92: the except clauses, given what the try *)
(* body produced (t) and the outcome of client.get (got), on the stdout    *)
(* out.  An exception raised inside a handler (the print of line 81, the   *)
(* json() of line 83, the prints of lines 88 and 91, which write the       *)
(* message of the exception) is caught only by what encloses it inside     *)
(* that handler, line 84's `except json.JSONDecodeError` for line 83; the  *)
(* later clauses of the outer try do not apply to it.  `except Exception`  *)
(* lets a BaseException go.                                                *)
SearchExcept(t, got, out) ==
    IF t.kind = "return" THEN t
    ELSE IF t.exc = "HTTPStatusError"
    THEN IF ~StrEncodable(ResponseText(got.body, got.charset), out)
         THEN Raised("UnicodeEncodeError")
         ELSE LET j == ResponseJson(got.body)
              IN  IF j.ok
                  THEN Returned(StatusError(got.status, j.value))
                  ELSE IF j.exc = "JSONDecodeError"
                  THEN Returned(StatusError(got.status,
                           PyStr(ResponseText(got.body, got.charset))))
                  ELSE Raised(j.exc)
    ELSE IF t.exc = "RequestError"
    THEN IF StrEncodable(t.msg, out) THEN Returned(ConnectError)
         ELSE Raised("UnicodeEncodeError")
    ELSE IF IsException(t.exc)
    THEN IF StrEncodable(t.msg, out) THEN Returned(UnexpectedError)
         ELSE Raised("UnicodeEncodeError")
    ELSE t

(* get_available_metrics, lines 111-119: the except clauses. *)
AvailableExcept(t, got, out) ==
    IF t.kind = "return" THEN t
    ELSE IF t.exc = "HTTPStatusError"
    THEN IF ~StrEncodable(ResponseText(got.body, got.charset), out)
         THEN Raised("UnicodeEncodeError")
         ELSE Returned(StatusError(got.status,
                  PyStr(ResponseText(got.body, got.charset))))
    ELSE IF t.exc = "RequestError"
    THEN IF StrEncodable(t.msg, out) THEN Returned(ConnectError)
         ELSE Raised("UnicodeEncodeError")
    ELSE IF IsException(t.exc)
    THEN IF StrEncodable(t.msg, out) THEN Returned(UnexpectedError)
         ELSE Raised("UnicodeEncodeError")
    ELSE t

(* search_lca_metrics, lines 76-92: the try statement from the completion  *)
(* of client.get on, on the stdout out.                                    *)
SearchHandle(got, out) == SearchExcept(TryBody(got), got, out)

(* get_available_metrics, lines 107-119. *)
AvailableHandle(got, out) == AvailableExcept(TryBody(got), got, out)

Handle(op, got, out) ==
    IF op = SEARCH THEN SearchHandle(got, out) ELSE AvailableHandle(got, out)

(* line 75: the search prints filtered_params inside the try, before       *)
(* client.get; get_available_metrics prints nothing there.                 *)
PrintBeforeGetOk(op, query, out) == op # SEARCH \/ PrintParamsOk(query, out)

PcAfterGetRetry(got) ==
    IF got.kind = "raise" /\ got.exc = "RequestError" THEN "get" ELSE "exit"

(* Every branch of the try statement ends in a return (or lets the         *)
(* exception go): control leaves the `async with` block, no branch loops   *)
(* back to client.get (lines 79, 86, 89, 92 / 110, 113, 116, 119).         *)
PcAfterGet(got) == "exit"

ClientShared(i) == 1

(* line 73 / line 105: each invocation constructs its own AsyncClient; the *)
(* object is identified by the invocation that constructed it.             *)
ClientOf(i) == i

NoClient == 0
NoRequest == [ method |-> "none" ]

-----------------------------------------------------------------------------
(* State.                                                                  *)
(*   environ   the process environment                                     *)
(*   stdout    the encoding and the error handler of sys.stdout, fixed     *)
(*             when the process starts                                     *)
(*   inv[i]    invocation i of a tool: its operation and arguments, its    *)
(*             position pc, the environment it ran in (env), its locals    *)
(*             (api_key, query, client), the number of times it has called *)
(*             client.get (calls), the number of GETs it has issued (gets) *)
(*             and the last one, the outcome of client.get, what the try   *)
(*             statement produced (handled) and what the caller observes   *)
(*             (outcome)                                                   *)
(*   clients   the AsyncClient objects constructed so far: open or closed  *)

Idle ==
    [ op |-> "none", args |-> NoArgs, pc |-> "idle", env |-> <<>>,
      api_key |-> PyNone,
      query |-> <<>>, client |-> NoClient, calls |-> 0, gets |-> 0,
      request |-> NoRequest,
      got |-> Nothing, handled |-> Nothing, outcome |-> Nothing ]

Init ==
    /\ environ \in Environments
    /\ stdout \in Stdouts
    /\ inv = [ i \in Invs |-> Idle ]
    /\ clients = <<>>

SetClient(cs, c, st) ==
    [ x \in DOMAIN cs \cup {c} |-> IF x = c THEN st ELSE cs[x] ]

(* The entry of a tool up to the `async with` (lines 47-71 / 97-104), run  *)
(* in environment env on the stdout out: the invocation's record after it. *)
(* The print of line 56 comes after the credential test and is outside any *)
(* try; the print of line 102 writes a constant ASCII text.                *)
Entered(op, args, env, out) ==
    LET api_key == Getenv(env, KEY_VAR)
    IN  IF MissingCredential(api_key)
        THEN [ Idle EXCEPT !.op = op, !.args = args, !.env = env,
                           !.api_key = api_key, !.pc = "done",
                           !.outcome = Returned(MissingKeyError) ]
        ELSE IF op = SEARCH /\ ~PrintSearchOk(args, out)
        THEN [ Idle EXCEPT !.op = op, !.args = args, !.env = env,
                           !.api_key = api_key, !.pc = "done",
                           !.outcome = Raised("UnicodeEncodeError") ]
        ELSE [ Idle EXCEPT !.op = op, !.args = args, !.env = env,
                           !.api_key = api_key, !.query = Query(op, args),
                           !.pc = "enter" ]

(* A call of search_lca_metrics starts, with an argument list of argset    *)
(* (lines 46-71).                                                          *)
SearchLcaMetrics(i, argset) ==
    /\ inv[i].pc = "idle"
    /\ \E args \in argset :
          inv' = [ inv EXCEPT ![i] = Entered(SEARCH, args, environ, stdout) ]
    /\ UNCHANGED <<environ, stdout, clients>>

(* A call of get_available_metrics starts (lines 97-104). *)
GetAvailableMetrics(i) ==
    /\ inv[i].pc = "idle"
    /\ inv' = [ inv EXCEPT ![i] = Entered(AVAILABLE, NoArgs, environ, stdout) ]
    /\ UNCHANGED <<environ, stdout, clients>>

(* line 73 / line 105: the client is constructed and entered. *)
OpenClient(i) ==
    /\ inv[i].pc = "enter"
    /\ inv' = [ inv EXCEPT ![i] = [ @ EXCEPT !.client = ClientOf(i), !.pc = "get" ] ]
    /\ clients' = SetClient(clients, ClientOf(i), "open")
    /\ UNCHANGED <<environ, stdout>>

(* line 73 / line 105: constructing or entering the client raises; the     *)
(* statement is outside the try, so the exception leaves the tool.         *)
OpenClientFails(i) ==
    /\ inv[i].pc = "enter"
    /\ inv' = [ inv EXCEPT ![i] =
                  [ @ EXCEPT !.pc = "done", !.outcome = Raised("ClientError") ] ]
    /\ UNCHANGED <<environ, stdout, clients>>

(* lines 74-76 / 106-107: the try statement begins.  The search prints its *)
(* parameters first; when that print raises, `except Exception` turns it   *)
(* into the unexpected-error result and client.get is not called.          *)
(* Otherwise client.get is called: it raises before it sends anything when *)
(* the query cannot be encoded into the URL, and the except clauses handle *)
(* that; else the GET is issued and the tool awaits its outcome.           *)
SendGet(i) ==
    /\ inv[i].pc = "get"
    /\ IF ~PrintBeforeGetOk(inv[i].op, inv[i].query, stdout)
       THEN inv' = [ inv EXCEPT ![i] =
                  [ @ EXCEPT !.handled = SearchExcept(Raised("UnicodeEncodeError"),
                                                      Nothing, stdout),
                             !.pc = "exit" ] ]
       ELSE IF ~UrlEncodable(inv[i].query)
       THEN inv' = [ inv EXCEPT ![i] =
                  [ @ EXCEPT !.calls = @ + 1,
                             !.got = Raised("UnicodeEncodeError"),
                             !.handled = Handle(inv[i].op,
                                                Raised("UnicodeEncodeError"),
                                                stdout),
                             !.pc = "exit" ] ]
       ELSE inv' = [ inv EXCEPT ![i] =
                  [ @ EXCEPT !.calls = @ + 1,
                             !.gets = @ + 1,
                             !.request = [ method |-> "GET",
                                           path |-> Path(inv[i].op),
                                           params |-> inv[i].query,
                                           headers |-> Headers(inv[i].api_key),
                                           client |-> inv[i].client ],
                             !.pc = "await" ] ]
    /\ UNCHANGED <<environ, stdout, clients>>

(* lines 76-92 / 107-119: client.get completes with one of `outcomes` and  *)
(* the try statement maps it to a return value or an exception.            *)
Complete(i, outcomes) ==
    /\ inv[i].pc = "await"
    /\ \E got \in outcomes :
          inv' = [ inv EXCEPT ![i] =
                     [ @ EXCEPT !.got = got,
                                !.handled = Handle(inv[i].op, got, stdout),
                                !.pc = PcAfterGet(got) ] ]
    /\ UNCHANGED <<environ, stdout, clients>>

(* A connection is in the client's pool when a response came over it. *)
Pooled(got) == got.kind = "response"

(* The end of the `async with` block (AsyncClient.__aexit__): the client   *)
(* is marked closed.  With no connection in its pool nothing is awaited    *)
(* and the value or exception of the try statement reaches the caller;     *)
(* with one, the tool awaits the close of the connection, and other tasks  *)
(* run before the invocation ends.                                         *)
CloseClient(i) ==
    /\ inv[i].pc = "exit"
    /\ inv' = [ inv EXCEPT ![i] =
                  IF Pooled(inv[i].got)
                  THEN [ @ EXCEPT !.pc = "closing" ]
                  ELSE [ @ EXCEPT !.pc = "done", !.outcome = inv[i].handled ] ]
    /\ clients' = SetClient(clients, inv[i].client, "closed")
    /\ UNCHANGED <<environ, stdout>>

(* The awaited close of the connection finishes: the value or exception of *)
(* the try statement reaches the caller.                                   *)
ClientClosed(i) ==
    /\ inv[i].pc = "closing"
    /\ inv' = [ inv EXCEPT ![i] = [ @ EXCEPT !.pc = "done", !.outcome = inv[i].handled ] ]
    /\ UNCHANGED <<environ, stdout, clients>>

(* The host cancels the call while it awaits the close of the connection:  *)
(* asyncio.CancelledError leaves the `async with` and the tool, whatever   *)
(* the try statement produced.                                             *)
CloseCancelled(i) ==
    /\ inv[i].pc = "closing"
    /\ inv' = [ inv EXCEPT ![i] =
                  [ @ EXCEPT !.pc = "done", !.outcome = Raised("CancelledError") ] ]
    /\ UNCHANGED <<environ, stdout, clients>>

(* The end of the `async with` block when closing the client raises: the   *)
(* block is outside the try, so that exception reaches the caller.         *)
CloseClientFails(i) ==
    /\ inv[i].pc \in { "exit", "closing" }
    /\ inv' = [ inv EXCEPT ![i] =
                  [ @ EXCEPT !.pc = "done", !.outcome = Raised("ClientError") ] ]
    /\ clients' = SetClient(clients, inv[i].client, "closed")
    /\ UNCHANGED <<environ, stdout>>

(* The environment changes between or during calls. *)
SetEnviron(e) ==
    /\ e # environ
    /\ environ' = e
    /\ UNCHANGED <<stdout, inv, clients>>

(* Inputs of the concurrent specification: a call with every argument     *)
(* supplied (its geography in CJK characters) and a call with the defaults *)
(* whose item_name is a lone surrogate; as outcomes of client.get a 2xx    *)
(* response, a non-2xx response with an undecodable body and a transport   *)
(* failure.                                                                *)
ConcurrentArgs ==
    { [ item_name |-> PyStr("steel beam"), metric |-> PyStr("Carbon footprint"),
        year |-> PyStr("2022"), geography |-> PyStr(T_CJK),
        num_matches |-> PyInt(1), unit |-> PyStr("kg"), mode |-> PyStr("lite"),
        domain |-> PyStr("Energy"), not_english |-> PyBool(TRUE) ],
      DefaultArgs(PyStr(T_SURROGATE)) }

ConcurrentOutcomes ==
    { Response(200, B_METRICS, "utf-8"), Response(500, B_BADUTF8, "utf-8"),
      Raised("RequestError") }

Step(i, argset, outcomes) ==
    \/ SearchLcaMetrics(i, argset)
    \/ GetAvailableMetrics(i)
    \/ OpenClient(i)
    \/ OpenClientFails(i)
    \/ SendGet(i)
    \/ Complete(i, outcomes)
    \/ CloseClient(i)
    \/ ClientClosed(i)
    \/ CloseCancelled(i)
    \/ CloseClientFails(i)

(* Any number of overlapping invocations, up to MaxInv. *)
Next ==
    \/ \E i \in Invs : Step(i, ConcurrentArgs, ConcurrentOutcomes)
    \/ \E e \in Environments : SetEnviron(e)

Spec == Init /\ [][Next]_vars

(* One invocation, in any environment, with every argument list and every *)
(* outcome of the GET.                                                     *)
NextSeq == Step(1, SearchArgs, GetOutcomes)

SpecSeq == Init /\ [][NextSeq]_vars

-----------------------------------------------------------------------------
(* Properties *)

Started(i) == inv[i].pc # "idle"
Done(i) == inv[i].pc = "done"
(* client.get has completed and the try statement has produced its result. *)
Handled(i) == inv[i].got # Nothing

KeyUnset(env) == KEY_VAR \notin DOMAIN env
KeyEmpty(env) == KEY_VAR \in DOMAIN env /\ env[KEY_VAR] = ""
KeyPresent(env) == KEY_VAR \in DOMAIN env /\ env[KEY_VAR] # ""

(* The invocation returned the missing-credential error without opening a  *)
(* client or issuing a GET.                                                *)
ShortCircuited(i) ==
    /\ Done(i)
    /\ inv[i].client = NoClient
    /\ inv[i].calls = 0
    /\ inv[i].gets = 0
    /\ inv[i].outcome = Returned(
         [ error |-> PyStr("SCOPEGREEN_API_KEY not found in environment variables") ])

(* C1, as stated: an invocation that runs while SCOPEGREEN_API_KEY is      *)
(* unset issues no GET and returns the missing-credential error; one that  *)
(* runs while the variable is set is not short-circuited.                  *)
C1_UnsetIffShortCircuit ==
    \A i \in Invs : Started(i) =>
        /\ KeyUnset(inv[i].env) => ShortCircuited(i)
        /\ ~KeyUnset(inv[i].env) => ~ShortCircuited(i)

(* C1, amended: an invocation that runs while SCOPEGREEN_API_KEY is unset  *)
(* or set to the empty string issues no GET and returns the                *)
(* missing-credential error, whatever the variable was before; one that    *)
(* runs while the variable is set to a non-empty value is not              *)
(* short-circuited.                                                        *)
C1_MissingOrEmptyShortCircuits ==
    \A i \in Invs : Started(i) =>
        /\ (KeyUnset(inv[i].env) \/ KeyEmpty(inv[i].env)) => ShortCircuited(i)
        /\ KeyPresent(inv[i].env) => ~ShortCircuited(i)

(* One invocation ran with the key set and issued its GET, another ran     *)
(* after the key was emptied and was short-circuited.                      *)
C1_Witness ==
    \E i, j \in Invs :
        /\ KeyPresent(inv[i].env) /\ inv[i].gets = 1
        /\ KeyEmpty(inv[j].env) /\ ShortCircuited(j)
        /\ KeyUnset(environ)

SearchSent(i) == inv[i].op = SEARCH /\ inv[i].gets > 0

(* C2: the query of every search that reaches the network has the key     *)
(* domain; its value is 'Materials & Products' when the caller gave none   *)
(* and the caller's value otherwise.                                       *)
C2_DomainAlwaysSent ==
    \A i \in Invs : SearchSent(i) =>
        /\ "domain" \in DOMAIN inv[i].request.params
        /\ inv[i].request.params["domain"] =
             IF inv[i].args.domain = PyNone
             THEN PyStr("Materials & Products")
             ELSE inv[i].args.domain

(* A search without a domain went out with the default one. *)
C2_Witness ==
    \E i \in Invs :
        /\ SearchSent(i)
        /\ inv[i].args.domain = PyNone
        /\ inv[i].request.params["domain"] = PyStr("Materials & Products")

OptionalKeys ==
    { "item_name", "metric", "year", "geography", "num_matches", "unit",
      "mode", "not_english" }

(* C3: the keys of the outbound query are domain plus the arguments that   *)
(* are not None, each with the caller's value.                             *)
C3_AbsentFieldsOmitted ==
    \A i \in Invs : SearchSent(i) =>
        LET q == inv[i].request.params
        IN  /\ DOMAIN q =
                 {"domain"} \cup { k \in OptionalKeys : inv[i].args[k] # PyNone }
            /\ \A k \in DOMAIN q \ {"domain"} : q[k] = inv[i].args[k]

(* A search with the defaults went out: year, geography and unit are not   *)
(* keys of the query; metric, num_matches, mode and not_english=false are. *)
C3_Witness ==
    \E i \in Invs :
        /\ SearchSent(i)
        /\ inv[i].args = DefaultArgs(PyStr("steel beam"))
        /\ DOMAIN inv[i].request.params =
             { "item_name", "metric", "num_matches", "mode", "domain", "not_english" }
        /\ inv[i].request.params["not_english"] = PyBool(FALSE)
        /\ inv[i].request.params["num_matches"] = PyInt(1)

(* C4, as stated: every invocation ends by returning a value; no exception *)
(* leaves the try statement or the tool.                                   *)
C4_NeverRaises ==
    \A i \in Invs :
        /\ inv[i].handled.kind # "raise"
        /\ Done(i) => inv[i].outcome.kind = "return"

NonSuccess(got) ==
    got.kind = "response" /\ (got.status < 200 \/ got.status > 299)

(* C5, as stated: for every non-2xx response the search returns the error  *)
(* with the status in its message and, as details, the decoded body when   *)
(* the body is JSON and the body's text otherwise.                         *)
C5_DetailsParsedOrRaw ==
    \A i \in Invs : (inv[i].op = SEARCH /\ NonSuccess(inv[i].got)) =>
        LET j == ResponseJson(inv[i].got.body)
        IN  inv[i].handled = Returned(
              [ error |-> PyStr("API request failed with status "
                                  \o ToString(inv[i].got.status)),
                details |-> IF j.ok THEN j.value
                            ELSE PyStr(ResponseText(inv[i].got.body,
                                                    inv[i].got.charset)) ])

(* C6, as stated: for every outcome of the GET, get_available_metrics      *)
(* produces what search_lca_metrics produces for it.                       *)
C6_SameMapping ==
    \A i \in Invs : (inv[i].op = AVAILABLE /\ Handled(i)) =>
        inv[i].handled = SearchHandle(inv[i].got, stdout)

Success(got) ==
    got.kind = "response" /\ 200 <= got.status /\ got.status <= 299

(* C7: on a 2xx response whose body is JSON, both tools produce exactly    *)
(* the decoded body, and that is the value a caller receives.              *)
C7_PayloadUnchanged ==
    \A i \in Invs : (Success(inv[i].got) /\ ResponseJson(inv[i].got.body).ok) =>
        /\ inv[i].handled = Returned(ResponseJson(inv[i].got.body).value)
        /\ (Done(i) /\ inv[i].outcome.kind = "return") =>
              inv[i].outcome.value = ResponseJson(inv[i].got.body).value

(* get_available_metrics returned the metrics object of a 200 response. *)
C7_Witness ==
    \E i \in Invs :
        /\ inv[i].op = AVAILABLE
        /\ inv[i].got = Response(200, B_METRICS, "utf-8")
        /\ Done(i)
        /\ inv[i].outcome = Returned(
             [ metrics |-> PyList(<< PyStr("Carbon footprint"), PyStr("Land Use") >>) ])

ConnectFailure == [ error |-> PyStr("Failed to connect to the ScopeGreen API.") ]

TransportFailure(got) == got.kind = "raise" /\ got.exc = "RequestError"

(* C8, as stated: a transport failure of the GET gives exactly the connect *)
(* error, without details; a non-2xx response never gives it (its result,  *)
(* when there is one, carries the status message), and a 2xx response with *)
(* a malformed body gives the unexpected-error message.                    *)
C8_ConnectErrorOnlyForTransport ==
    \A i \in Invs : Handled(i) =>
        /\ TransportFailure(inv[i].got) =>
              inv[i].handled = Returned(ConnectFailure)
        /\ (inv[i].got.kind = "raise" /\ ~TransportFailure(inv[i].got)) =>
              inv[i].handled # Returned(ConnectFailure)
        /\ NonSuccess(inv[i].got) =>
              /\ inv[i].handled # Returned(ConnectFailure)
              /\ inv[i].handled.kind = "return" =>
                    inv[i].handled.value["error"] =
                      PyStr("API request failed with status "
                              \o ToString(inv[i].got.status))
        /\ (Success(inv[i].got) /\ ~ResponseJson(inv[i].got.body).ok) =>
              inv[i].handled = Returned(
                [ error |-> PyStr("An unexpected error occurred during the API call.") ])

RECURSIVE SumGets(_)
SumGets(S) ==
    IF S = {} THEN 0
    ELSE LET i == CHOOSE x \in S : TRUE IN inv[i].gets + SumGets(S \ {i})

AtMostOneGet ==
    /\ \A i \in Invs :
          /\ inv[i].gets <= 1
          /\ inv[i].gets = 1 =>
                /\ inv[i].request.method = "GET"
                /\ inv[i].request.path =
                     IF inv[i].op = SEARCH THEN "/api/metrics/search"
                     ELSE "/api/metrics/available"
    /\ SumGets(Invs) <= Cardinality({ i \in Invs : Started(i) })

(* C9, as stated: every invocation issues at most one GET, to the path of  *)
(* its operation, and a completed invocation that ran with the credential  *)
(* present issued exactly one.                                             *)
C9_ExactlyOneWithCredential ==
    /\ AtMostOneGet
    /\ \A i \in Invs : (Done(i) /\ KeyPresent(inv[i].env)) => inv[i].gets = 1

StrArgs == { "item_name", "metric", "year", "geography", "unit", "mode" }

(* The invocation issues its GET: the credential is present, the prints of *)
(* lines 56 and 75 succeed, the client opens and no argument has a lone    *)
(* surrogate, which the URL cannot carry.                                  *)
ReachesGet(i) ==
    /\ KeyPresent(inv[i].env)
    /\ inv[i].client # NoClient
    /\ inv[i].op = SEARCH =>
          /\ StrEncodable(inv[i].args.item_name.str, stdout)
          /\ \A k \in StrArgs :
                inv[i].args[k] # PyNone =>
                   /\ ReprEncodable(inv[i].args[k].str, stdout)
                   /\ inv[i].args[k].str \notin SurrogateTexts

(* C9, amended: every invocation issues at most one GET, to the path of    *)
(* its operation, and never a second one after a failure; a completed      *)
(* invocation issued exactly one when it ran with the credential present,  *)
(* its diagnostic prints before the request succeeded, its HTTP client     *)
(* opened and its query could be encoded into the URL, and none otherwise. *)
C9_ExactlyOneOnceOpened ==
    /\ AtMostOneGet
    /\ \A i \in Invs : Done(i) => inv[i].gets = IF ReachesGet(i) THEN 1 ELSE 0

(* Two invocations completed, one after a transport failure of its GET;    *)
(* each issued one GET.                                                    *)
C9_Witness ==
    \E i, j \in Invs :
        /\ i # j /\ Done(i) /\ Done(j)
        /\ inv[i].got = Raised("RequestError") /\ inv[i].gets = 1
        /\ inv[j].op = AVAILABLE /\ inv[j].gets = 1
        /\ SumGets(Invs) = 2

(* C10: the invocations that hold a client hold different ones; a client   *)
(* is open while its invocation is inside the `async with` block and       *)
(* closed once the invocation has completed, however it completed; when    *)
(* every invocation has completed, no client is open.                      *)
C10_ClientFreshAndClosed ==
    /\ \A i, j \in Invs :
          (i # j /\ inv[i].client # NoClient) => inv[i].client # inv[j].client
    /\ \A i \in Invs :
          /\ inv[i].pc \in {"get", "await", "exit"} =>
                clients[inv[i].client] = "open"
          /\ (Done(i) /\ inv[i].client # NoClient) =>
                clients[inv[i].client] = "closed"
    /\ (\A i \in Invs : Done(i)) =>
          \A c \in DOMAIN clients : clients[c] = "closed"

(* Every invocation opened a client and completed, one by an exception of  *)
(* the try statement, one by a returned error; every client is closed.     *)
C10_Witness ==
    /\ \A i \in Invs : Done(i) /\ inv[i].client # NoClient
    /\ \E i, j \in Invs :
          /\ inv[i].outcome.kind = "raise" /\ inv[i].handled.kind = "raise"
          /\ inv[j].got = Raised("RequestError")
    /\ Cardinality(DOMAIN clients) = Cardinality(Invs)
    /\ \A c \in DOMAIN clients : clients[c] = "closed"

====
